---------------------------- MODULE Spec2Model ----------------------------
(***************************************************************************)
(* Model of gmllt/enum: the lookup/validation engine and the               *)
(* serialization adapters of package internal (lookup.go, validation.go,   *)
(* marshal.go, errors.go, constants.go, the cache builder), the Enum       *)
(* (enum.go) and the Wrapper.                                              *)
(*                                                                         *)
(* A Go string / []byte is a sequence of bytes (integers 0..255).  A Go    *)
(* index i (0-based) of a slice is position i+1 of the TLA+ sequence.      *)
(* Every exported function is an operator computed the way the code        *)
(* computes it; an action calls it on inputs drawn from bounded sets and   *)
(* records the arguments and the returned values.                          *)
(*                                                                         *)
(* Spec calls the functions of package internal on the caller's labels;    *)
(* SpecEnum builds an Enum from the caller's slice, calls its methods and  *)
(* lets the caller overwrite the slices it holds; SpecConc lets threads    *)
(* call the read methods of one Enum and one Wrapper; SpecWrapper calls    *)
(* every method of one Wrapper, built by NewWrapper or as a literal whose  *)
(* Enum is nil.                                                            *)
(***************************************************************************)
EXTENDS Integers, Sequences, FiniteSets, TLC

VARIABLES
    labels,   \* the label sequence handed to the functions ([]string)
    op,       \* the function whose call is recorded ("init": none yet)
    arg,      \* the arguments of that call
    ret,      \* what that call returned
    sent,     \* <<v>> when arg.data is the output of encoding index v,
              \* <<m>> when the call follows a successful decode m, else <<>>
    enum,     \* the Enum the caller has built (NoEnum: none yet)
    wrapper,  \* the Wrapper the caller has built (NoWrapper: none yet)
    held,     \* the slice the caller has kept from an accessor of the Enum
    hist,     \* history: the labels at construction, the caller's writes
    threads,  \* the call each thread is in, when threads share the Enum
    registry  \* the registered labels, by type name (map[string][]string)

\* the Enum, the Wrapper and what goes with them
objects == <<enum, wrapper, held, hist, threads, registry>>

vars ==
    <<labels, op, arg, ret, sent, enum, wrapper, held, hist, threads, registry>>

---------------------------------------------------------------------------
(* Bounds of the model *)

\* longest varying part of a label sequence
MaxLabels == 3
\* how far past either end of the label sequence the indices range
IndexSlack == 2
\* how many elements of slices the caller overwrites in one run
MaxWrites == 1
\* how many threads share one Enum and one Wrapper
NThreads == 2
\* length of the medium label (its length prefix has a non-zero high byte)
MidLen == 300

---------------------------------------------------------------------------
(* Program constants *)

\* constants.go: DefaultLookupThreshold = 10
DefaultLookupThreshold == 10
\* lookup.go: const LookupThreshold = DefaultLookupThreshold
LookupThreshold == DefaultLookupThreshold
\* constants.go: InvalidLabel = "Invalid"
InvalidLabel == <<73, 110, 118, 97, 108, 105, 100>>
\* marshal.go ToBinary: the largest label length a 2-byte prefix holds
MaxUint16 == 65535

---------------------------------------------------------------------------
(* Strings of the model *)

RepeatByte(b, n) == SubSeq([i \in 1..n |-> b], 1, n)

S_empty == <<>>                                  \* ""
S_a == <<97>>                                    \* "a"
S_b == <<98>>                                    \* "b"
S_quote == <<97, 34>>                            \* a"   (needs JSON escaping)
S_bad == <<255>>                                 \* one byte that is not UTF-8
S_mid == RepeatByte(97, MidLen)
S_max == RepeatByte(97, MaxUint16)               \* longest encodable label
S_over == RepeatByte(97, MaxUint16 + 1)          \* one byte too long

\* the strings of the two scenarios of the tests
S_first == <<102, 105, 114, 115, 116>>
S_second == <<115, 101, 99, 111, 110, 100>>
S_third == <<116, 104, 105, 114, 100>>
S_red == <<114, 101, 100>>
S_green == <<103, 114, 101, 101, 110>>
S_blue == <<98, 108, 117, 101>>
S_purple == <<112, 117, 114, 112, 108, 101>>
FirstSecondThird == <<S_first, S_second, S_third>>
RedGreenBlue == <<S_red, S_green, S_blue>>

\* labels of the enumerated label sequences
ShortStrings == {S_empty, S_a, InvalidLabel, S_quote, S_bad}
LongStrings == {S_mid, S_max, S_over}
\* strings looked up or decoded: every label and one string that is never a label
Targets == ShortStrings \cup {S_b}

\* "f1", "f2", ...: pairwise distinct filler labels
Filler(n) == [i \in 1..n |-> <<102, 48 + i>>]

SeqsUpTo(S, n) == UNION {[1..k -> S] : k \in 0..n}

\* The label sequences: every sequence of at most MaxLabels short strings
\* (duplicates included), alone and behind LookupThreshold-1 fillers (so
\* that the lengths straddle the threshold), a duplicated label behind
\* LookupThreshold-2 fillers (exactly LookupThreshold labels), a few with a
\* long label, and the label sequences of the two scenarios.
LabelSeqs ==
    LET short == SeqsUpTo(ShortStrings, MaxLabels)
    IN  short
        \cup {Filler(LookupThreshold - 1) \o s : s \in short}
        \cup {Filler(LookupThreshold - 2) \o <<l, l>> : l \in ShortStrings}
        \cup {<<l>> : l \in LongStrings}
        \cup {<<S_a, l>> : l \in LongStrings}
        \cup {FirstSecondThird, RedGreenBlue}

Indices(L) == (0 - IndexSlack)..(Len(L) - 1 + IndexSlack)

---------------------------------------------------------------------------
(* Slices.  A slice the code stores or returns without copying shares its *)
(* backing array with another slice; the model names the array.           *)

\* the caller's slice, the one spread into NewEnum / NewWrapper: its array
\* is the variable labels
SuppliedSlice == [array |-> "supplied", v |-> <<>>]
\* the nil slice: no array, length 0
NilSlice == [array |-> "nil", v |-> <<>>]

\* make(...) followed by copy(...): a new array that holds s
Fresh(s) == [array |-> "fresh", v |-> s]

---------------------------------------------------------------------------
(* errors.go *)

NilError == [kind |-> "nil"]

\* NewInvalidEnumValueError that keeps the slice it is given
NewInvalidEnumValueError_NoCopy(value, validValues) ==
    [kind |-> "ErrInvalidEnumValue", Value |-> value,
     ValidValues |-> SuppliedSlice]

NewInvalidEnumValueError(value, validValues) ==
    \* validValuesCopy := make(...); copy(validValuesCopy, validValues)
    LET validValuesCopy == [i \in 1..Len(validValues) |-> validValues[i]]
    IN  [kind |-> "ErrInvalidEnumValue", Value |-> value,
         ValidValues |-> Fresh(validValuesCopy)]

NewBinaryDataTooShortError(expected, actual) ==
    [kind |-> "ErrBinaryDataTooShort", Expected |-> expected, Actual |-> actual]

NewBinaryDataTruncatedError(expected, actual) ==
    [kind |-> "ErrBinaryDataTruncated", Expected |-> expected, Actual |-> actual]

NewLabelTooLongError(length, maxLength) ==
    [kind |-> "ErrLabelTooLong", Length |-> length, MaxLength |-> maxLength]

\* func (e *ErrInvalidEnumValue) Is(target error) bool that also compares
\* the rejected string
ErrInvalidEnumValue_Is_SameValue(e, target) ==
    /\ target.kind = "ErrInvalidEnumValue"
    /\ target.Value = e.Value

\* _, ok := target.(*ErrInvalidEnumValue); return ok
ErrInvalidEnumValue_Is(e, target) == target.kind = "ErrInvalidEnumValue"

ErrBinaryDataTooShort_Is(e, target) == target.kind = "ErrBinaryDataTooShort"

ErrBinaryDataTruncated_Is(e, target) == target.kind = "ErrBinaryDataTruncated"

ErrLabelTooLong_Is(e, target) == target.kind = "ErrLabelTooLong"

\* errors.Is(err, target) on two errors of this package, neither of which
\* wraps another: a nil on either side compares the two, otherwise the Is
\* method of err decides (it is true whenever err and target are one pointer)
ErrorsIs(err, target) ==
    IF err = NilError \/ target = NilError THEN err = target
    ELSE IF err.kind = "ErrInvalidEnumValue" THEN ErrInvalidEnumValue_Is(err, target)
    ELSE IF err.kind = "ErrBinaryDataTooShort" THEN ErrBinaryDataTooShort_Is(err, target)
    ELSE IF err.kind = "ErrBinaryDataTruncated" THEN ErrBinaryDataTruncated_Is(err, target)
    ELSE ErrLabelTooLong_Is(err, target)

---------------------------------------------------------------------------
(* validation.go *)

\* fmt.Errorf("index %d out of bounds for enum with %d labels", i, len(labels))
IndexOutOfBounds(i, n) == [kind |-> "fmt.Errorf", index |-> i, count |-> n]

\* ValidateIndex with the lower bound off by one (i <= 0)
ValidateIndex_ZeroRejected(L, index) ==
    LET i == index
    IN  IF i <= 0 \/ i >= Len(L) THEN IndexOutOfBounds(i, Len(L)) ELSE NilError

ValidateIndex(L, index) ==
    LET i == index
    IN  IF i < 0 \/ i >= Len(L) THEN IndexOutOfBounds(i, Len(L)) ELSE NilError

IsValidIndex(L, index) ==
    LET i == index
    IN  i >= 0 /\ i < Len(L)

\* SafeGetLabel that falls back to the sentinel, not to the caller's default
SafeGetLabel_FixedDefault(L, index, defaultLabel) ==
    IF IsValidIndex(L, index) THEN L[index + 1] ELSE InvalidLabel

SafeGetLabel(L, index, defaultLabel) ==
    IF IsValidIndex(L, index) THEN L[index + 1] ELSE defaultLabel

SafeGetLabelWithError(L, index) ==
    LET err == ValidateIndex(L, index)
    IN  IF err # NilError
        THEN [label |-> <<>>, err |-> err]
        ELSE [label |-> L[index + 1], err |-> NilError]

---------------------------------------------------------------------------
(* lookup.go *)

\* labelMap[k] = v on a Go map: insert, or overwrite the entry of k
MapPut(m, k, v) == [x \in (DOMAIN m) \cup {k} |-> IF x = k THEN v ELSE m[x]]

EmptyMap == [x \in {} |-> 0]

\* for i, label := range labels { labelMap[label] = T(i) }, from position p on
RECURSIVE MapFill(_, _, _)
MapFill(L, p, m) ==
    IF p > Len(L) THEN m ELSE MapFill(L, p + 1, MapPut(m, L[p], p - 1))

BuildLabelMap(L) == MapFill(L, 1, EmptyMap)

\* mapLookup that reports the zero index as found when the key is absent
mapLookup_ZeroFound(L, target) ==
    LET labelMap == MapFill(L, 1, EmptyMap)
    IN  IF target \in DOMAIN labelMap
        THEN [val |-> labelMap[target], found |-> TRUE]
        ELSE [val |-> 0, found |-> TRUE]

mapLookup(L, target) ==
    LET labelMap == MapFill(L, 1, EmptyMap)
    IN  IF target \in DOMAIN labelMap
        THEN [val |-> labelMap[target], found |-> TRUE]
        ELSE [val |-> 0, found |-> FALSE]

\* for i, label := range labels { if label == target { return T(i), true } }
RECURSIVE LinearScan(_, _, _)
LinearScan(L, p, target) ==
    IF p > Len(L) THEN [val |-> 0, found |-> FALSE]
    ELSE IF L[p] = target THEN [val |-> p - 1, found |-> TRUE]
    ELSE LinearScan(L, p + 1, target)

\* linearLookup that returns the 1-based position of the match
linearLookup_OneBased(L, target) ==
    LET r == LinearScan(L, 1, target)
    IN  IF r.found THEN [val |-> r.val + 1, found |-> TRUE] ELSE r

linearLookup(L, target) == LinearScan(L, 1, target)

\* StringToIndex that takes the map path from LookupThreshold labels on
StringToIndex_AtThreshold(L, target) ==
    IF Len(L) >= LookupThreshold
    THEN mapLookup(L, target)
    ELSE linearLookup(L, target)

StringToIndex(L, target) ==
    IF Len(L) > LookupThreshold
    THEN mapLookup(L, target)
    ELSE linearLookup(L, target)

---------------------------------------------------------------------------
(* unicode/utf8 and encoding/json, as marshal.go uses them on one string *)

IsCont(s, i) == i <= Len(s) /\ s[i] >= 128 /\ s[i] <= 191

\* utf8.DecodeRune at position i: the size of the well-formed sequence that
\* starts there, 0 when there is none (RuneError of width 1)
RuneSize(s, i) ==
    LET b == s[i]
        b2 == IF i + 1 <= Len(s) THEN s[i + 1] ELSE 0
    IN  IF b < 128 THEN 1
        ELSE IF b >= 194 /\ b <= 223 /\ IsCont(s, i + 1) THEN 2
        ELSE IF b >= 224 /\ b <= 239 /\ IsCont(s, i + 1) /\ IsCont(s, i + 2)
                /\ (b = 224 => b2 >= 160) /\ (b = 237 => b2 <= 159) THEN 3
        ELSE IF b >= 240 /\ b <= 244 /\ IsCont(s, i + 1) /\ IsCont(s, i + 2)
                /\ IsCont(s, i + 3)
                /\ (b = 240 => b2 >= 144) /\ (b = 244 => b2 <= 143) THEN 4
        ELSE 0

\* utf8.ValidString
ValidUTF8(s) ==
    \A i \in 1..Len(s) :
        \/ s[i] < 128
        \/ RuneSize(s, i) > 1
        \/ \E k \in 1..3 : i - k >= 1 /\ s[i - k] >= 194 /\ RuneSize(s, i - k) > k

\* utf8.AppendRune
EncodeRune(r) ==
    IF r < 128 THEN <<r>>
    ELSE IF r < 2048 THEN <<192 + (r \div 64), 128 + (r % 64)>>
    ELSE IF r < 65536
         THEN <<224 + (r \div 4096), 128 + ((r \div 64) % 64), 128 + (r % 64)>>
    ELSE <<240 + (r \div 262144), 128 + ((r \div 4096) % 64),
           128 + ((r \div 64) % 64), 128 + (r % 64)>>

\* U+FFFD, what replaces a byte that is not UTF-8
ReplacementChar == <<239, 191, 189>>

HexDigit(n) == IF n < 10 THEN 48 + n ELSE 87 + n

HexVal(c) ==
    IF c >= 48 /\ c <= 57 THEN c - 48
    ELSE IF c >= 97 /\ c <= 102 THEN c - 87
    ELSE IF c >= 65 /\ c <= 70 THEN c - 55
    ELSE 0 - 1

\* htmlSafeSet: the ASCII bytes json.Marshal copies unchanged
JSONSafe == (32..127) \ {34, 92, 60, 62, 38}

\* the first position from i on that holds a byte outside set S, or Len+1
FirstNot(s, i, S) ==
    LET bad == {j \in i..Len(s) : s[j] \notin S}
    IN  IF bad = {} THEN Len(s) + 1
        ELSE CHOOSE j \in bad : \A k \in bad : j <= k

\* appendString: runs of safe bytes are copied, every other byte is escaped
RECURSIVE JSONEscapeFrom(_, _)
JSONEscapeFrom(s, i) ==
    LET j == FirstNot(s, i, JSONSafe)
        run == SubSeq(s, i, j - 1)
    IN  IF j > Len(s) THEN run
        ELSE LET b == s[j]
                 size == RuneSize(s, j)
             IN  IF b \in {34, 92}
                 THEN run \o <<92, b>> \o JSONEscapeFrom(s, j + 1)
                 ELSE IF b = 10 THEN run \o <<92, 110>> \o JSONEscapeFrom(s, j + 1)
                 ELSE IF b = 13 THEN run \o <<92, 114>> \o JSONEscapeFrom(s, j + 1)
                 ELSE IF b = 9 THEN run \o <<92, 116>> \o JSONEscapeFrom(s, j + 1)
                 \* the other control bytes and <, >, &: \u00XX (newer
                 \* releases write \b and \f for 8 and 12; both decode alike)
                 ELSE IF b < 128
                 THEN run \o <<92, 117, 48, 48, HexDigit(b \div 16), HexDigit(b % 16)>>
                          \o JSONEscapeFrom(s, j + 1)
                 ELSE IF size = 0
                 THEN run \o <<92, 117, 102, 102, 102, 100>> \o JSONEscapeFrom(s, j + 1)
                 ELSE IF size = 3 /\ b = 226 /\ s[j + 1] = 128 /\ s[j + 2] \in {168, 169}
                 THEN run \o <<92, 117, 50, 48, 50, HexDigit(s[j + 2] % 16)>>
                          \o JSONEscapeFrom(s, j + 3)
                 ELSE run \o SubSeq(s, j, j + size - 1) \o JSONEscapeFrom(s, j + size)

\* json.Marshal(label) of a string: never fails
JSONMarshalString(s) == <<34>> \o JSONEscapeFrom(s, 1) \o <<34>>

JSONSyntaxError == [kind |-> "json.SyntaxError"]
JSONTypeError == [kind |-> "json.UnmarshalTypeError"]

\* isSpace
JSONSpace == {32, 9, 10, 13}

\* the input without the white space JSON allows around a value
JSONTrim(b) ==
    LET first == FirstNot(b, 1, JSONSpace)
        last == CHOOSE j \in (first - 1)..Len(b) :
                    /\ j = first - 1 \/ b[j] \notin JSONSpace
                    /\ \A k \in (j + 1)..Len(b) : b[k] \in JSONSpace
    IN  SubSeq(b, first, last)

\* a byte of a string literal the decoder copies unchanged
JSONPlain == (32..127) \ {34, 92}

\* the four hex digits at i..i+3 as a number, -1 when they are not hex digits
Hex4(b, i) ==
    IF i + 3 > Len(b) \/ \E k \in 0..3 : HexVal(b[i + k]) < 0 THEN 0 - 1
    ELSE 4096 * HexVal(b[i]) + 256 * HexVal(b[i + 1])
         + 16 * HexVal(b[i + 2]) + HexVal(b[i + 3])

\* The string literal whose body starts at i (after the opening quote): the
\* scanner's check and unquote's decoding in one pass.  The closing quote
\* must be the last byte.
RECURSIVE JSONUnquoteFrom(_, _, _)
JSONUnquoteFrom(b, i, acc) ==
    LET j == FirstNot(b, i, JSONPlain)
        run == acc \o SubSeq(b, i, j - 1)
    IN  IF j > Len(b) THEN [err |-> JSONSyntaxError, s |-> <<>>]
        ELSE IF b[j] = 34
        THEN IF j = Len(b) THEN [err |-> NilError, s |-> run]
             ELSE [err |-> JSONSyntaxError, s |-> <<>>]
        ELSE IF b[j] < 32 THEN [err |-> JSONSyntaxError, s |-> <<>>]
        ELSE IF b[j] >= 128
        THEN LET size == RuneSize(b, j)
             IN  IF size = 0
                 THEN JSONUnquoteFrom(b, j + 1, run \o ReplacementChar)
                 ELSE JSONUnquoteFrom(b, j + size, run \o SubSeq(b, j, j + size - 1))
        \* a backslash
        ELSE IF j + 1 > Len(b) THEN [err |-> JSONSyntaxError, s |-> <<>>]
        ELSE LET c == b[j + 1]
             IN  IF c \in {34, 92, 47} THEN JSONUnquoteFrom(b, j + 2, run \o <<c>>)
                 ELSE IF c = 98 THEN JSONUnquoteFrom(b, j + 2, run \o <<8>>)
                 ELSE IF c = 102 THEN JSONUnquoteFrom(b, j + 2, run \o <<12>>)
                 ELSE IF c = 110 THEN JSONUnquoteFrom(b, j + 2, run \o <<10>>)
                 ELSE IF c = 114 THEN JSONUnquoteFrom(b, j + 2, run \o <<13>>)
                 ELSE IF c = 116 THEN JSONUnquoteFrom(b, j + 2, run \o <<9>>)
                 ELSE IF c # 117 THEN [err |-> JSONSyntaxError, s |-> <<>>]
                 ELSE LET r == Hex4(b, j + 2)
                          r2 == IF j + 7 <= Len(b) /\ b[j + 6] = 92 /\ b[j + 7] = 117
                                THEN Hex4(b, j + 8) ELSE 0 - 1
                      IN  IF r < 0 THEN [err |-> JSONSyntaxError, s |-> <<>>]
                          ELSE IF r < 55296 \/ r > 57343
                          THEN JSONUnquoteFrom(b, j + 6, run \o EncodeRune(r))
                          \* a surrogate pair, or a lone surrogate (replaced)
                          ELSE IF r <= 56319 /\ r2 >= 56320 /\ r2 <= 57343
                          THEN JSONUnquoteFrom(b, j + 12,
                                   run \o EncodeRune(65536 + (r - 55296) * 1024
                                                     + (r2 - 56320)))
                          ELSE JSONUnquoteFrom(b, j + 6, run \o ReplacementChar)

IsDigit(c) == c >= 48 /\ c <= 57

\* an integer literal: -?(0|[1-9][0-9]*)
IsJSONInteger(t) ==
    LET d == IF Len(t) > 0 /\ t[1] = 45 THEN SubSeq(t, 2, Len(t)) ELSE t
    IN  /\ Len(d) > 0
        /\ \A i \in 1..Len(d) : IsDigit(d[i])
        /\ (Len(d) > 1 => d[1] # 48)

\* json.Unmarshal(b, &s) with s a string that starts empty: the text is
\* checked first; null leaves s alone; a string sets it; a number or a
\* boolean is a type error; everything else the model's inputs hold is
\* malformed (objects and arrays are not among them).
JSONUnmarshalString(b) ==
    LET t == JSONTrim(b)
    IN  IF t = <<110, 117, 108, 108>> THEN [err |-> NilError, s |-> <<>>]
        ELSE IF t = <<116, 114, 117, 101>> \/ t = <<102, 97, 108, 115, 101>>
                \/ IsJSONInteger(t)
        THEN [err |-> JSONTypeError, s |-> <<>>]
        ELSE IF Len(t) > 0 /\ t[1] = 34 THEN JSONUnquoteFrom(t, 2, <<>>)
        ELSE [err |-> JSONSyntaxError, s |-> <<>>]

---------------------------------------------------------------------------
(* marshal.go *)

ToJSON(L, v) ==
    LET label == SafeGetLabel(L, v, InvalidLabel)
    IN  [out |-> JSONMarshalString(label), err |-> NilError]

\* the shared tail of every decoder: resolve s, or fail with InvalidValue
\* the silent fallback: an unknown label decodes to the zero index
Resolve_SilentZero(L, s) ==
    LET r == StringToIndex(L, s)
    IN  IF r.found THEN [val |-> r.val, err |-> NilError]
        ELSE [val |-> 0, err |-> NilError]

Resolve(L, s) ==
    LET r == StringToIndex(L, s)
    IN  IF r.found THEN [val |-> r.val, err |-> NilError]
        ELSE [val |-> 0, err |-> NewInvalidEnumValueError(s, L)]

FromJSON(L, b) ==
    LET u == JSONUnmarshalString(b)
    IN  IF u.err # NilError THEN [val |-> 0, err |-> u.err]
        ELSE Resolve(L, u.s)

\* the value returned is the label itself, as an untyped scalar
ToYAML(L, v) ==
    [out |-> [type |-> "string", v |-> SafeGetLabel(L, v, InvalidLabel)],
     err |-> NilError]

\* unmarshal is the caller's callback: cb.err is what it returns and cb.s
\* what it stores through the pointer it is given
FromYAML(L, cb) ==
    IF cb.err # NilError THEN [val |-> 0, err |-> cb.err]
    ELSE Resolve(L, cb.s)

ToText(L, v) ==
    LET label == SafeGetLabel(L, v, InvalidLabel)
    IN  [out |-> label, err |-> NilError]

FromText(L, text) == Resolve(L, text)

\* the prefix written low byte first
PutUint16_LittleEndian(n) == <<(n % 65536) % 256, ((n % 65536) \div 256) % 256>>

\* binary.BigEndian.PutUint16(result[0:2], uint16(n))
PutUint16(n) == <<((n % 65536) \div 256) % 256, (n % 65536) % 256>>

\* binary.BigEndian.Uint16(data[0:2])
Uint16(data) == data[1] * 256 + data[2]

\* ToBinary that refuses an invalid index the way ToSQLValue does
ToBinary_RejectInvalid(L, v) ==
    IF ~IsValidIndex(L, v)
    THEN [out |-> <<>>, err |-> NewInvalidEnumValueError(<<>>, L)]
    ELSE [out |-> PutUint16(Len(L[v + 1])) \o L[v + 1], err |-> NilError]

\* ToBinary that refuses what a one-byte length prefix cannot hold
ToBinary_OneBytePrefix(L, v) ==
    LET label == SafeGetLabel(L, v, InvalidLabel)
        labelBytes == label
    IN  IF Len(labelBytes) > 255
        THEN [out |-> <<>>, err |-> NewLabelTooLongError(Len(labelBytes), MaxUint16)]
        ELSE [out |-> PutUint16(Len(labelBytes)) \o labelBytes, err |-> NilError]

ToBinary(L, v) ==
    LET label == SafeGetLabel(L, v, InvalidLabel)
        labelBytes == label
    IN  IF Len(labelBytes) > MaxUint16
        THEN [out |-> <<>>, err |-> NewLabelTooLongError(Len(labelBytes), MaxUint16)]
        ELSE [out |-> PutUint16(Len(labelBytes)) \o labelBytes, err |-> NilError]

\* FromBinary with the arguments of the too-short error swapped
FromBinary_SwappedTooShort(L, data) ==
    IF Len(data) < 2
    THEN [val |-> 0, err |-> NewBinaryDataTooShortError(Len(data), 2)]
    ELSE LET length == Uint16(data)
         IN  IF Len(data) < 2 + length
             THEN [val |-> 0,
                   err |-> NewBinaryDataTruncatedError(2 + length, Len(data))]
             ELSE Resolve(L, SubSeq(data, 3, 2 + length))

\* FromBinary that reports the declared payload length as the expected total
FromBinary_PayloadOnly(L, data) ==
    IF Len(data) < 2
    THEN [val |-> 0, err |-> NewBinaryDataTooShortError(2, Len(data))]
    ELSE LET length == Uint16(data)
         IN  IF Len(data) < 2 + length
             THEN [val |-> 0,
                   err |-> NewBinaryDataTruncatedError(length, Len(data))]
             ELSE Resolve(L, SubSeq(data, 3, 2 + length))

\* FromBinary that takes everything after the prefix as the label
FromBinary_ReadsAll(L, data) ==
    IF Len(data) < 2
    THEN [val |-> 0, err |-> NewBinaryDataTooShortError(2, Len(data))]
    ELSE LET length == Uint16(data)
         IN  IF Len(data) < 2 + length
             THEN [val |-> 0,
                   err |-> NewBinaryDataTruncatedError(2 + length, Len(data))]
             ELSE Resolve(L, SubSeq(data, 3, Len(data)))

FromBinary(L, data) ==
    IF Len(data) < 2
    THEN [val |-> 0, err |-> NewBinaryDataTooShortError(2, Len(data))]
    ELSE LET length == Uint16(data)
         IN  IF Len(data) < 2 + length
             THEN [val |-> 0,
                   err |-> NewBinaryDataTruncatedError(2 + length, Len(data))]
             ELSE Resolve(L, SubSeq(data, 3, 2 + length))

SQLNil == [type |-> "nil"]

\* ToSQLValue that falls back to the sentinel the way the other encoders do
ToSQLValue_Sentinel(L, v) ==
    [out |-> [type |-> "string", v |-> SafeGetLabel(L, v, InvalidLabel)],
     err |-> NilError]

ToSQLValue(L, v) ==
    IF ~IsValidIndex(L, v)
    THEN [out |-> SQLNil, err |-> NewInvalidEnumValueError(<<>>, L)]
    ELSE [out |-> [type |-> "string", v |-> SafeGetLabel(L, v, InvalidLabel)],
          err |-> NilError]

\* "non-string SQL value"
NonStringSQLValue ==
    <<110, 111, 110, 45, 115, 116, 114, 105, 110, 103, 32, 83, 81, 76, 32,
      118, 97, 108, 117, 101>>

\* FromSQLValue without the []byte case of the type switch
FromSQLValue_StringOnly(L, src) ==
    IF src.type = "nil" THEN [val |-> 0, err |-> NilError]
    ELSE IF src.type = "string" THEN Resolve(L, src.v)
    ELSE [val |-> 0, err |-> NewInvalidEnumValueError(NonStringSQLValue, L)]

FromSQLValue(L, src) ==
    IF src.type = "nil" THEN [val |-> 0, err |-> NilError]
    ELSE IF src.type \in {"string", "bytes"} THEN Resolve(L, src.v)
    ELSE [val |-> 0, err |-> NewInvalidEnumValueError(NonStringSQLValue, L)]

---------------------------------------------------------------------------
(* cache builder (NewCacheBuilder, BuildAllValues, BuildLookupMap,        *)
(* ShouldUseCachedLookup)                                                 *)

\* &CacheBuilder[T]{labels: labels}; L is what the array of sl holds
NewCacheBuilder(sl, L) == [labels |-> sl, content |-> L]

\* BuildAllValues that stops one short of the last label
BuildAllValues_OneShort(cb) ==
    [i \in 1..(Len(cb.content) - 1) |-> i - 1]

\* allVals[i] = T(i) for i := range cb.labels
BuildAllValues(cb) == [i \in 1..Len(cb.content) |-> i - 1]

\* BuildLookupMap that builds the map only where the resolver would use it
BuildLookupMap_AboveThreshold(cb) ==
    IF Len(cb.content) > LookupThreshold
    THEN BuildLabelMap(cb.content)
    ELSE EmptyMap

BuildLookupMap(cb) == BuildLabelMap(cb.content)

\* len(cb.labels) > LookupThreshold
ShouldUseCachedLookup(cb) == Len(cb.content) > LookupThreshold

---------------------------------------------------------------------------
(* enum.go *)

NoEnum == [nil |-> TRUE]

\* NewEnum(labels...): the slice is stored as it is, the map and the list of
\* all values are built from what it holds now
NewEnum(sl, L) ==
    LET cacheBuilder == NewCacheBuilder(sl, L)
    IN  [labels |-> sl,
         labelMap |-> BuildLookupMap(cacheBuilder),
         allVals |-> BuildAllValues(cacheBuilder)]

\* what the array of slice sl holds, for an Enum en over the caller's array L
Load(sl, en, L) ==
    IF sl.array = "supplied" THEN L
    ELSE IF sl.array = "allVals" THEN en.allVals
    ELSE sl.v

\* the digits of n >= 0
RECURSIVE Digits(_)
Digits(n) == IF n < 10 THEN <<48 + n>> ELSE Digits(n \div 10) \o <<48 + (n % 10)>>

\* fmt.Sprintf("Invalid(%d)", v)
SprintfInvalid(v) ==
    <<73, 110, 118, 97, 108, 105, 100, 40>>
    \o (IF v < 0 THEN <<45>> \o Digits(0 - v) ELSE Digits(v))
    \o <<41>>

\* String that falls back to the sentinel of the adapters
Enum_String_Sentinel(en, L, v) ==
    SafeGetLabel(Load(en.labels, en, L), v, InvalidLabel)

Enum_String(en, L, v) ==
    SafeGetLabel(Load(en.labels, en, L), v, SprintfInvalid(v))

\* fmt.Errorf("invalid value: %s", s)
InvalidValueErrorf(s) == [kind |-> "fmt.Errorf", value |-> s]

Enum_FromString(en, s) ==
    IF s \in DOMAIN en.labelMap
    THEN [val |-> en.labelMap[s], err |-> NilError]
    ELSE [val |-> 0, err |-> InvalidValueErrorf(s)]

\* All that hands out the list itself
Enum_All_Live(en) == [array |-> "allVals", v |-> <<>>]

\* res := make([]T, len(e.allVals)); copy(res, e.allVals)
Enum_All(en) == Fresh([i \in 1..Len(en.allVals) |-> en.allVals[i]])

Enum_Labels(en, L) ==
    LET stored == Load(en.labels, en, L)
    IN  Fresh([i \in 1..Len(stored) |-> stored[i]])

\* return e.labels
Enum_LabelsReadOnly(en) == en.labels

---------------------------------------------------------------------------
(* the Wrapper (Enum, Current, labels) *)

NoWrapper == [nil |-> TRUE]

\* NewWrapper(labels...): Enum points to the Enum built from the same slice,
\* Current is the zero value
NewWrapper(sl) == [Enum |-> "e", Current |-> 0, labels |-> sl]

Wrapper_String(wr, en, L) == Enum_String(en, L, wr.Current)

Wrapper_All(wr, en) == Enum_All(en)

Wrapper_Labels(wr, en, L) == Enum_Labels(en, L)

Wrapper_MarshalJSON(wr, en, L) == ToJSON(Load(en.labels, en, L), wr.Current)

Wrapper_MarshalYAML(wr, en, L) == ToYAML(Load(en.labels, en, L), wr.Current)

Wrapper_Get(wr) == wr.Current

Wrapper_Set(wr, v) == [wr EXCEPT !.Current = v]

Wrapper_MarshalText(wr, en, L) == ToText(Load(en.labels, en, L), wr.Current)

Wrapper_MarshalBinary(wr, en, L) == ToBinary(Load(en.labels, en, L), wr.Current)

Wrapper_Value(wr, en, L) == ToSQLValue(Load(en.labels, en, L), wr.Current)

\* Wrapper[T]{Enum: nil, Current: c, labels: sl}
WrapperLiteral(c, sl) == [Enum |-> "nil", Current |-> c, labels |-> sl]

\* the panic of a method that reads a field of the Enum through a nil pointer
NilDereference == [panic |-> TRUE]

\* w.Enum.labels, w.Enum.String(...), w.Enum.All(), w.Enum.Labels(): the
\* method returns out when Enum points to an Enum, and panics when it is nil
OnEnum(wr, out) ==
    IF wr.Enum = "nil" THEN NilDereference ELSE [panic |-> FALSE, out |-> out]

\* if w.Enum == nil && w.labels != nil { w.Enum = NewEnum[T](w.labels...) }
ensureEnum(wr, en, L) ==
    IF wr.Enum = "nil" /\ wr.labels # NilSlice
    THEN [wr |-> [wr EXCEPT !.Enum = "e"],
          en |-> NewEnum(wr.labels, Load(wr.labels, en, L))]
    ELSE [wr |-> wr, en |-> en]

\* a decode method that stores the index the adapter returned, error or not
Wrapper_Store_Always(wr, r) == [wr EXCEPT !.Current = r.val]

\* a decode method that stores the 1-based position of the label
Wrapper_Store_OneBased(wr, r) ==
    IF r.err # NilError THEN wr ELSE [wr EXCEPT !.Current = r.val + 1]

\* if err != nil { return err }; w.Current = val; return nil
Wrapper_Store(wr, r) ==
    IF r.err # NilError THEN wr ELSE [wr EXCEPT !.Current = r.val]

\* the decode method after w.ensureEnum() has left the Wrapper and the Enum
\* as in s; r is what the adapter returns on w.Enum.labels
Wrapper_Decode(s, r) ==
    IF s.wr.Enum = "nil"
    THEN [wr |-> s.wr, en |-> s.en, res |-> NilDereference]
    ELSE [wr |-> Wrapper_Store(s.wr, r), en |-> s.en,
          res |-> [panic |-> FALSE, out |-> r.err]]

Wrapper_UnmarshalJSON(wr, en, L, data) ==
    LET s == ensureEnum(wr, en, L)
    IN  Wrapper_Decode(s, FromJSON(Load(s.en.labels, s.en, L), data))

Wrapper_UnmarshalYAML(wr, en, L, unmarshal) ==
    LET s == ensureEnum(wr, en, L)
    IN  Wrapper_Decode(s, FromYAML(Load(s.en.labels, s.en, L), unmarshal))

Wrapper_UnmarshalText(wr, en, L, text) ==
    LET s == ensureEnum(wr, en, L)
    IN  Wrapper_Decode(s, FromText(Load(s.en.labels, s.en, L), text))

Wrapper_UnmarshalBinary(wr, en, L, data) ==
    LET s == ensureEnum(wr, en, L)
    IN  Wrapper_Decode(s, FromBinary(Load(s.en.labels, s.en, L), data))

Wrapper_Scan(wr, en, L, src) ==
    LET s == ensureEnum(wr, en, L)
    IN  Wrapper_Decode(s, FromSQLValue(Load(s.en.labels, s.en, L), src))

---------------------------------------------------------------------------
(* register.go *)

\* the name of the type the labels are registered for
TypeName == "RegistryTestType2"

\* registry[t] = labels
Register(reg, t, sl) == MapPut(reg, t, sl)

\* return registry[t]: the nil slice when nothing is registered for t
GetLabels(reg, t) == IF t \in DOMAIN reg THEN reg[t] ELSE NilSlice

---------------------------------------------------------------------------
(* The calls *)

\* no slice kept
NoSlice == [from |-> "none", sl |-> Fresh(<<>>)]

\* no Enum built, nothing written
NoHistory == [orig |-> <<>>, current |-> 0, writes |-> 0, wroteSupplied |-> FALSE]

Idle == [pc |-> "idle"]

\* the state in which the functions of package internal are called
NoObjects ==
    /\ enum = NoEnum
    /\ wrapper = NoWrapper
    /\ held = NoSlice
    /\ hist = NoHistory
    /\ threads = [t \in 1..NThreads |-> Idle]
    /\ registry = EmptyMap

Init ==
    /\ labels \in LabelSeqs
    /\ op = "init"
    /\ arg = [none |-> TRUE]
    /\ ret = [none |-> TRUE]
    /\ sent = <<>>
    /\ NoObjects

\* one target resolved by the resolver and by each of its two paths
Lookup ==
    \E target \in Targets \cup LongStrings :
        /\ op = "init"
        /\ op' = "lookup"
        /\ arg' = [target |-> target]
        /\ ret' = [sti |-> StringToIndex(labels, target),
                   map |-> mapLookup(labels, target),
                   lin |-> linearLookup(labels, target)]
        /\ sent' = <<>>
        /\ UNCHANGED <<labels, objects>>

\* one index put to the three validating forms
Validate ==
    \E i \in Indices(labels) :
        /\ op = "init"
        /\ op' = "validate"
        /\ arg' = [index |-> i]
        /\ ret' = [validate |-> ValidateIndex(labels, i),
                   isValid |-> IsValidIndex(labels, i),
                   safeGet |-> SafeGetLabelWithError(labels, i)]
        /\ sent' = <<>>
        /\ UNCHANGED <<labels, objects>>

CallSafeGetLabel ==
    \E i \in Indices(labels), d \in {InvalidLabel, S_b, S_empty} :
        /\ op = "init"
        /\ op' = "SafeGetLabel"
        /\ arg' = [index |-> i, defaultLabel |-> d]
        /\ ret' = [label |-> SafeGetLabel(labels, i, d)]
        /\ sent' = <<>>
        /\ UNCHANGED <<labels, objects>>

\* an encoder called on index v
Encode(name, v, r) ==
    /\ op = "init"
    /\ op' = name
    /\ arg' = [index |-> v]
    /\ ret' = r
    /\ sent' = <<>>
    /\ UNCHANGED <<labels, objects>>

CallToJSON == \E v \in Indices(labels) : Encode("ToJSON", v, ToJSON(labels, v))
CallToYAML == \E v \in Indices(labels) : Encode("ToYAML", v, ToYAML(labels, v))
CallToText == \E v \in Indices(labels) : Encode("ToText", v, ToText(labels, v))
CallToBinary == \E v \in Indices(labels) : Encode("ToBinary", v, ToBinary(labels, v))
CallToSQLValue ==
    \E v \in Indices(labels) : Encode("ToSQLValue", v, ToSQLValue(labels, v))

\* length-prefixed frame of a string, as a decoder input
Frame(t) == <<Len(t) \div 256, Len(t) % 256>> \o t

JSONInputs ==
    {JSONMarshalString(t) : t \in Targets}
    \cup { <<110, 117, 108, 108>>,              \* null
           <<49, 50>>,                          \* 12
           <<116, 114, 117, 101>>,              \* true
           <<>>,                                \* nothing
           <<34, 97>>,                          \* "a     (unterminated)
           <<34, 97, 34, 120>>,                 \* "a"x   (trailing text)
           <<32, 34, 97, 34, 10>>,              \* "a" inside white space
           <<34, 92, 117, 48, 48, 54, 49, 34>>, \* "a", which is "a"
           <<34, 92, 120, 34>>,                 \* "\x"   (no such escape)
           <<34, 255, 34>>,                     \* a raw byte that is not UTF-8
           <<34, 98, 97, 34>>,                  \* "ba"
           <<34>> \o S_green \o <<34>>,
           <<34>> \o S_purple \o <<34>> }

BinaryInputs ==
    {Frame(t) : t \in Targets}
    \cup { <<>>, <<0>>, <<7>>,                  \* shorter than the prefix
           <<0, 10, 97, 98>>,                   \* 10 declared, 2 present
           <<1, 0, 97>>,                        \* 256 declared, 1 present
           <<255, 255>>,                        \* 65535 declared, 0 present
           <<0, 1>>,                            \* 1 declared, 0 present
           <<0, 1, 97, 98>>,                    \* "a" and one byte more
           <<0, 0, 97>> }                       \* "" and one byte more

YAMLCallbacks ==
    {[err |-> NilError, s |-> t] : t \in Targets}
    \cup {[err |-> [kind |-> "yaml.TypeError"], s |-> <<>>]}

SQLSources ==
    {SQLNil, [type |-> "int64", n |-> 123], [type |-> "bool", n |-> 1]}
    \cup {[type |-> "string", v |-> t] : t \in Targets}
    \cup {[type |-> "bytes", v |-> t] : t \in Targets}

\* a decoder called on data; origin is <<v>> when data is the output of the
\* encoder call recorded just before, made on index v
Decode(name, data, r, origin) ==
    /\ op' = name
    /\ arg' = [data |-> data]
    /\ ret' = r
    /\ sent' = origin
    /\ UNCHANGED <<labels, objects>>

CallFromJSON ==
    \/ /\ op = "init"
       /\ \E b \in JSONInputs : Decode("FromJSON", b, FromJSON(labels, b), <<>>)
    \/ /\ op = "ToJSON"
       /\ ret.err = NilError
       /\ Decode("FromJSON", ret.out, FromJSON(labels, ret.out), <<arg.index>>)

CallFromText ==
    \/ /\ op = "init"
       /\ \E t \in Targets : Decode("FromText", t, FromText(labels, t), <<>>)
    \/ /\ op = "ToText"
       /\ ret.err = NilError
       /\ Decode("FromText", ret.out, FromText(labels, ret.out), <<arg.index>>)

CallFromBinary ==
    \/ /\ op = "init"
       /\ \E d \in BinaryInputs : Decode("FromBinary", d, FromBinary(labels, d), <<>>)
    \/ /\ op = "ToBinary"
       /\ ret.err = NilError
       /\ Decode("FromBinary", ret.out, FromBinary(labels, ret.out), <<arg.index>>)

CallFromYAML ==
    /\ op = "init"
    /\ \E cb \in YAMLCallbacks : Decode("FromYAML", cb, FromYAML(labels, cb), <<>>)

CallFromSQLValue ==
    /\ op = "init"
    /\ \E src \in SQLSources :
           Decode("FromSQLValue", src, FromSQLValue(labels, src), <<>>)

\* errors of the four kinds, two payloads each
ErrorValues(L) ==
    { NewInvalidEnumValueError(S_a, L),
      NewInvalidEnumValueError(S_purple, RedGreenBlue),
      NewBinaryDataTooShortError(2, 0),
      NewBinaryDataTooShortError(4, 2),
      NewBinaryDataTruncatedError(12, 4),
      NewBinaryDataTruncatedError(10, 5),
      NewLabelTooLongError(70000, MaxUint16),
      NewLabelTooLongError(50000, 32767) }

CallErrorsIs ==
    /\ op = "init"
    /\ \E a, b \in ErrorValues(labels) :
           /\ op' = "errors.Is"
           /\ arg' = [err |-> a, target |-> b]
           /\ ret' = [is |-> ErrorsIs(a, b)]
           /\ sent' = <<>>
           /\ UNCHANGED <<labels, objects>>

\* the same content scanned once as a string and once as a []byte
CallFromSQLValueBoth ==
    /\ op = "init"
    /\ \E t \in Targets \cup {S_green, S_purple} :
           /\ op' = "FromSQLValueBoth"
           /\ arg' = [content |-> t]
           /\ ret' = [str |-> FromSQLValue(labels, [type |-> "string", v |-> t]),
                      bytes |-> FromSQLValue(labels, [type |-> "bytes", v |-> t])]
           /\ sent' = <<>>
           /\ UNCHANGED <<labels, objects>>

\* the declared payload is the whole of the bytes after the prefix
Exact(d) == Len(d) >= 2 /\ Len(d) = 2 + Uint16(d)

\* what may follow the declared payload
TrailingBytes == {<<98>>, <<0, 1, 97>>, <<255>>}

\* one input with bytes after the declared payload, decoded as it is and
\* cut to the prefix and the declared payload
CallFromBinaryTrailing ==
    /\ op = "init"
    /\ \E d \in {x \in BinaryInputs : Exact(x)}, extra \in TrailingBytes :
           /\ op' = "FromBinaryTrailing"
           /\ arg' = [data |-> d \o extra, cut |-> d]
           /\ ret' = [whole |-> FromBinary(labels, d \o extra),
                      cut |-> FromBinary(labels, d)]
           /\ sent' = <<>>
           /\ UNCHANGED <<labels, objects>>

\* a method of a cache builder made on the caller's labels: the builder
\* reads cb.labels and assigns nothing
CacheBuilderCall(name, r) ==
    /\ op = "init"
    /\ op' = name
    /\ arg' = [labels |-> labels]
    /\ ret' = [out |-> r]
    /\ UNCHANGED <<labels, sent, objects>>

CallBuildAllValues ==
    CacheBuilderCall("BuildAllValues",
                     BuildAllValues(NewCacheBuilder(SuppliedSlice, labels)))

\* BuildLookupMap that first drops the repeated labels from its input
CallBuildLookupMap_Dedup ==
    /\ op = "init"
    /\ op' = "BuildLookupMap"
    /\ arg' = [labels |-> labels]
    /\ labels' = SelectSeq(labels, LAMBDA l : l # labels[Len(labels)])
                     \o (IF labels = <<>> THEN <<>> ELSE <<labels[Len(labels)]>>)
    /\ ret' = [out |-> BuildLookupMap(NewCacheBuilder(SuppliedSlice, labels))]
    /\ UNCHANGED <<sent, objects>>

CallBuildLookupMap ==
    CacheBuilderCall("BuildLookupMap",
                     BuildLookupMap(NewCacheBuilder(SuppliedSlice, labels)))

CallShouldUseCachedLookup ==
    CacheBuilderCall("ShouldUseCachedLookup",
                     ShouldUseCachedLookup(NewCacheBuilder(SuppliedSlice, labels)))

\* the caller drops the recorded call and is free to make the next one
Return ==
    /\ op # "init"
    /\ op' = "init"
    /\ arg' = [none |-> TRUE]
    /\ ret' = [none |-> TRUE]
    /\ sent' = <<>>
    /\ UNCHANGED <<labels, objects>>

Next ==
    \/ Return
    \/ Lookup
    \/ Validate
    \/ CallSafeGetLabel
    \/ CallToJSON
    \/ CallToYAML
    \/ CallToText
    \/ CallToBinary
    \/ CallToSQLValue
    \/ CallFromJSON
    \/ CallFromYAML
    \/ CallFromText
    \/ CallFromBinary
    \/ CallFromSQLValue
    \/ CallFromSQLValueBoth
    \/ CallErrorsIs
    \/ CallFromBinaryTrailing
    \/ CallBuildAllValues
    \/ CallBuildLookupMap
    \/ CallShouldUseCachedLookup

Spec == Init /\ [][Next]_vars

---------------------------------------------------------------------------
(* The Enum and its caller: the caller builds one Enum (or one Wrapper)   *)
(* from its slice, calls the methods, keeps slices they return and        *)
(* overwrites elements of the slices it holds.                            *)

\* "modified", what the tests write into a slice
S_modified == <<109, 111, 100, 105, 102, 105, 101, 100>>
\* the value the tests write into the result of All()
WrittenValue == 999

EnumStrings == {S_a, S_b, InvalidLabel}

EnumLabelSeqs ==
    SeqsUpTo(EnumStrings, MaxLabels) \cup {RedGreenBlue, FirstSecondThird}

\* the indices around the label sequence, the 5 of the tests and a
\* two-digit index
EnumIndices(L) == Indices(L) \cup {5, 10}

EnumTargets == EnumStrings \cup {S_empty, S_green, S_purple}

WrittenLabels == {S_b, S_modified}

InitEnum ==
    /\ labels \in EnumLabelSeqs
    /\ op = "init"
    /\ arg = [none |-> TRUE]
    /\ ret = [none |-> TRUE]
    /\ sent = <<>>
    /\ NoObjects

\* enum := NewEnum[int](labels...)
CallNewEnum ==
    /\ op = "init"
    /\ enum = NoEnum
    /\ op' = "NewEnum"
    /\ arg' = [labels |-> labels]
    /\ ret' = [none |-> TRUE]
    /\ enum' = NewEnum(SuppliedSlice, labels)
    /\ hist' = [hist EXCEPT !.orig = labels]
    /\ UNCHANGED <<labels, sent, wrapper, held, threads, registry>>

\* w := NewWrapper[int](labels...)
CallNewWrapper ==
    /\ op = "init"
    /\ enum = NoEnum
    /\ wrapper = NoWrapper
    /\ op' = "NewWrapper"
    /\ arg' = [labels |-> labels]
    /\ ret' = [none |-> TRUE]
    /\ enum' = NewEnum(SuppliedSlice, labels)
    /\ wrapper' = NewWrapper(SuppliedSlice)
    /\ hist' = [hist EXCEPT !.orig = labels]
    /\ UNCHANGED <<labels, sent, held, threads, registry>>

\* a method of the Enum called: no field of the Enum is assigned
EnumCall(name, a, r) ==
    /\ op = "init"
    /\ enum # NoEnum
    /\ op' = name
    /\ arg' = a
    /\ ret' = r
    /\ UNCHANGED <<labels, sent, objects>>

CallEnumString ==
    \E v \in EnumIndices(labels) :
        EnumCall("Enum.String", [index |-> v], [out |-> Enum_String(enum, labels, v)])

CallEnumFromString ==
    \E s \in EnumTargets :
        EnumCall("Enum.FromString", [s |-> s], Enum_FromString(enum, s))

CallEnumAll == EnumCall("Enum.All", [none |-> TRUE], [out |-> Enum_All(enum)])

CallEnumLabels ==
    EnumCall("Enum.Labels", [none |-> TRUE], [out |-> Enum_Labels(enum, labels)])

CallEnumLabelsReadOnly ==
    EnumCall("Enum.LabelsReadOnly", [none |-> TRUE],
             [out |-> Enum_LabelsReadOnly(enum)])

\* one string resolved by the Enum and by the resolver on the same labels
CallFromStringBoth ==
    \E s \in EnumTargets :
        EnumCall("FromStringBoth", [s |-> s],
                 [enum |-> Enum_FromString(enum, s),
                  sti |-> StringToIndex(labels, s)])

\* the caller keeps the slice an accessor has just returned
KeepReturned ==
    /\ op \in {"Enum.All", "Enum.Labels", "Enum.LabelsReadOnly"}
    /\ held' = [from |-> op, sl |-> ret.out]
    /\ op' = "init"
    /\ arg' = [none |-> TRUE]
    /\ ret' = [none |-> TRUE]
    /\ UNCHANGED <<labels, sent, enum, wrapper, hist, threads, registry>>

\* err := NewInvalidEnumValueError(value, labels), the error kept
CallNewInvalidEnumValueError ==
    \E t \in {S_purple, S_empty} :
        /\ op = "init"
        /\ op' = "NewInvalidEnumValueError"
        /\ arg' = [value |-> t, labels |-> labels]
        /\ ret' = [val |-> 0, err |-> NewInvalidEnumValueError(t, labels)]
        /\ UNCHANGED <<labels, sent, objects>>

\* _, err := FromText(labels, text), the error kept
CallFromTextKeepError ==
    \E t \in EnumTargets :
        /\ op = "init"
        /\ op' = "FromText"
        /\ arg' = [data |-> t, labels |-> labels]
        /\ ret' = FromText(labels, t)
        /\ UNCHANGED <<labels, sent, objects>>

\* labels[p-1] = s by the caller, on the slice it built the Enum from or
\* passed to the call whose error it holds
CallerWritesSupplied ==
    \E p \in 1..Len(labels), s \in WrittenLabels :
        /\ \/ op = "init" /\ enum # NoEnum
           \/ op \in {"NewInvalidEnumValueError", "FromText"}
        /\ hist.writes < MaxWrites
        /\ labels[p] # s
        /\ labels' = [labels EXCEPT ![p] = s]
        /\ hist' = [hist EXCEPT !.writes = @ + 1,
                                !.wroteSupplied = @ \/ enum # NoEnum]
        /\ UNCHANGED <<op, arg, ret, sent, enum, wrapper, held, threads, registry>>

\* result[p-1] = x by the caller, on the slice it kept: the element of the
\* array that slice points to is overwritten
CallerWritesHeld ==
    /\ op = "init"
    /\ held.from # "none"
    /\ hist.writes < MaxWrites
    /\ \E p \in 1..Len(Load(held.sl, enum, labels)) :
        \E x \in (IF held.from = "Enum.All" THEN {WrittenValue} ELSE WrittenLabels) :
            /\ Load(held.sl, enum, labels)[p] # x
            /\ IF held.sl.array = "fresh"
               THEN /\ held' = [held EXCEPT !.sl.v[p] = x]
                    /\ UNCHANGED <<labels, enum>>
               ELSE IF held.sl.array = "supplied"
               THEN /\ labels' = [labels EXCEPT ![p] = x]
                    /\ UNCHANGED <<held, enum>>
               ELSE /\ enum' = [enum EXCEPT !.allVals[p] = x]
                    /\ UNCHANGED <<held, labels>>
            /\ hist' = [hist EXCEPT
                            !.writes = @ + 1,
                            !.wroteSupplied = @ \/ held.from = "Enum.LabelsReadOnly"]
    /\ UNCHANGED <<op, arg, ret, sent, wrapper, threads, registry>>

NextEnum ==
    \/ Return
    \/ CallNewEnum
    \/ CallNewWrapper
    \/ CallEnumString
    \/ CallEnumFromString
    \/ CallEnumAll
    \/ CallEnumLabels
    \/ CallEnumLabelsReadOnly
    \/ KeepReturned
    \/ CallNewInvalidEnumValueError
    \/ CallFromTextKeepError
    \/ CallerWritesSupplied
    \/ CallerWritesHeld
    \/ CallFromStringBoth
    \/ CallBuildAllValues
    \/ CallBuildLookupMap
    \/ CallShouldUseCachedLookup

SpecEnum == InitEnum /\ [][NextEnum]_vars

---------------------------------------------------------------------------
(* Threads that share one Enum and one Wrapper and call the read methods. *)
(* A call takes two steps: the thread enters the method (a method with a  *)
(* value receiver copies the Wrapper there), later it reads the Enum and  *)
(* returns.  Steps of different threads interleave freely.                *)

ConcLabelSeqs == {<<>>, <<S_a>>, <<S_a, S_b>>, <<S_a, S_a>>, RedGreenBlue}

\* the calls a thread makes: the methods of the Enum, the encode adapters
\* on its labels, and the read methods of the Wrapper
ConcCalls(L) ==
    {[m |-> "Enum.String", v |-> v, s |-> <<>>] : v \in {0, Len(L)}}
    \cup {[m |-> "Enum.FromString", v |-> 0, s |-> t] : t \in {S_a, S_purple}}
    \cup {[m |-> n, v |-> 0, s |-> <<>>] :
              n \in {"Enum.All", "Enum.Labels", "ToJSON", "ToYAML", "ToText",
                     "ToBinary", "Wrapper.String", "Wrapper.Get", "Wrapper.All",
                     "Wrapper.Labels", "Wrapper.MarshalJSON",
                     "Wrapper.MarshalYAML"}}

\* what call c returns on Enum en, receiver wr and the caller's array L
Run(c, en, wr, L) ==
    IF c.m = "Enum.String" THEN Enum_String(en, L, c.v)
    ELSE IF c.m = "Enum.FromString" THEN Enum_FromString(en, c.s)
    ELSE IF c.m = "Enum.All" THEN Enum_All(en)
    ELSE IF c.m = "Enum.Labels" THEN Enum_Labels(en, L)
    ELSE IF c.m = "ToJSON" THEN ToJSON(Load(en.labels, en, L), c.v)
    ELSE IF c.m = "ToYAML" THEN ToYAML(Load(en.labels, en, L), c.v)
    ELSE IF c.m = "ToText" THEN ToText(Load(en.labels, en, L), c.v)
    ELSE IF c.m = "ToBinary" THEN ToBinary(Load(en.labels, en, L), c.v)
    ELSE IF c.m = "Wrapper.String" THEN Wrapper_String(wr, en, L)
    ELSE IF c.m = "Wrapper.Get" THEN Wrapper_Get(wr)
    ELSE IF c.m = "Wrapper.All" THEN Wrapper_All(wr, en)
    ELSE IF c.m = "Wrapper.Labels" THEN Wrapper_Labels(wr, en, L)
    ELSE IF c.m = "Wrapper.MarshalJSON" THEN Wrapper_MarshalJSON(wr, en, L)
    ELSE Wrapper_MarshalYAML(wr, en, L)

\* wrapper := NewWrapper[int](labels...); wrapper.Set(v); the threads start
InitConc ==
    /\ labels \in ConcLabelSeqs
    /\ op = "init"
    /\ arg = [none |-> TRUE]
    /\ ret = [none |-> TRUE]
    /\ sent = <<>>
    /\ enum = NewEnum(SuppliedSlice, labels)
    /\ \E v \in Indices(labels) :
           /\ wrapper = Wrapper_Set(NewWrapper(SuppliedSlice), v)
           /\ hist = [NoHistory EXCEPT !.orig = labels, !.current = v]
    /\ held = NoSlice
    /\ threads = [t \in 1..NThreads |-> Idle]
    /\ registry = EmptyMap

\* thread t enters a method; recv is the copy a value receiver works on
ThreadCall(t) ==
    /\ threads[t].pc = "idle"
    /\ \E c \in ConcCalls(labels) :
           threads' = [threads EXCEPT
                           ![t] = [pc |-> "called", call |-> c, recv |-> wrapper]]
    /\ UNCHANGED <<labels, op, arg, ret, sent, enum, wrapper, held, hist, registry>>

\* a method that stores the index it found the way the decoders do
ThreadReturn_StoresFound(t) ==
    /\ threads[t].pc = "called"
    /\ LET out == Run(threads[t].call, enum, threads[t].recv, labels)
       IN  /\ threads' = [threads EXCEPT
                              ![t] = [pc |-> "returned", call |-> threads[t].call,
                                      out |-> out]]
           /\ wrapper' = IF threads[t].call.m = "Enum.FromString"
                         THEN [wrapper EXCEPT !.Current = out.val]
                         ELSE wrapper
    /\ UNCHANGED <<labels, op, arg, ret, sent, enum, held, hist, registry>>

\* thread t reads what its method reads and returns: none of the methods
\* assigns a field of the Enum or of the Wrapper
ThreadReturn(t) ==
    /\ threads[t].pc = "called"
    /\ threads' = [threads EXCEPT
                       ![t] = [pc |-> "returned", call |-> threads[t].call,
                               out |-> Run(threads[t].call, enum,
                                           threads[t].recv, labels)]]
    /\ UNCHANGED <<labels, op, arg, ret, sent, enum, wrapper, held, hist, registry>>

\* thread t drops the result and is free to make its next call
ThreadDone(t) ==
    /\ threads[t].pc = "returned"
    /\ threads' = [threads EXCEPT ![t] = Idle]
    /\ UNCHANGED <<labels, op, arg, ret, sent, enum, wrapper, held, hist, registry>>

NextConc ==
    \E t \in 1..NThreads :
        \/ ThreadCall(t)
        \/ ThreadReturn(t)
        \/ ThreadDone(t)

SpecConc == InitConc /\ [][NextConc]_vars

---------------------------------------------------------------------------
(* One Wrapper and its caller: the caller registers its labels or not,    *)
(* builds the Wrapper with NewWrapper or as a literal with a nil Enum,    *)
(* and calls its methods one after the other.                             *)

WrapperTargets == {S_empty, S_a, S_green, S_purple}

WrapperLabelSeqs == SeqsUpTo({S_empty, S_a}, 2) \cup {RedGreenBlue}

WrapperJSONInputs ==
    {JSONMarshalString(t) : t \in WrapperTargets}
    \cup { <<110, 117, 108, 108>>,              \* null
           <<49, 50>> }                         \* 12

WrapperBinaryInputs ==
    {Frame(t) : t \in WrapperTargets}
    \cup { <<0>>,                               \* shorter than the prefix
           <<0, 10, 97, 98>> }                  \* 10 declared, 2 present

WrapperYAMLCallbacks ==
    {[err |-> NilError, s |-> t] : t \in WrapperTargets}
    \cup {[err |-> [kind |-> "yaml.TypeError"], s |-> <<>>]}

WrapperSQLSources ==
    {SQLNil, [type |-> "int64", n |-> 123]}
    \cup {[type |-> "string", v |-> t] : t \in WrapperTargets}
    \cup {[type |-> "bytes", v |-> t] : t \in WrapperTargets}

WrapperDecoders ==
    {"Wrapper.UnmarshalJSON", "Wrapper.UnmarshalYAML", "Wrapper.UnmarshalText",
     "Wrapper.UnmarshalBinary", "Wrapper.Scan"}

InitWrapper ==
    /\ labels \in WrapperLabelSeqs
    /\ op = "init"
    /\ arg = [none |-> TRUE]
    /\ ret = [none |-> TRUE]
    /\ sent = <<>>
    /\ NoObjects

\* Register[RegistryTestType2](labels...)
CallRegister ==
    /\ op = "init"
    /\ TypeName \notin DOMAIN registry
    /\ op' = "Register"
    /\ arg' = [labels |-> labels]
    /\ ret' = [none |-> TRUE]
    /\ registry' = Register(registry, TypeName, SuppliedSlice)
    /\ UNCHANGED <<labels, sent, enum, wrapper, held, hist, threads>>

\* wrapper := Wrapper[T]{Enum: nil, Current: c, labels: nil or labels}
MakeWrapperLiteral ==
    \E c \in {0, 1}, sl \in {NilSlice, SuppliedSlice} :
        /\ op = "init"
        /\ enum = NoEnum
        /\ wrapper = NoWrapper
        /\ op' = "WrapperLiteral"
        /\ arg' = [Current |-> c, labels |-> sl]
        /\ ret' = [none |-> TRUE]
        /\ wrapper' = WrapperLiteral(c, sl)
        /\ hist' = [hist EXCEPT !.current = c]
        /\ UNCHANGED <<labels, sent, enum, held, threads, registry>>

\* a method with a value receiver called: it assigns no field; origin is
\* <<m>> when the call follows the successful decode m at once
WrapperRead(name, out, origin) ==
    /\ wrapper # NoWrapper
    /\ op' = name
    /\ arg' = [none |-> TRUE]
    /\ ret' = out
    /\ sent' = origin
    /\ hist' = [hist EXCEPT !.current = wrapper.Current]
    /\ UNCHANGED <<labels, enum, wrapper, held, threads, registry>>

\* a method with a pointer receiver called: u holds the Wrapper and the
\* Enum as the method leaves them and what it returns
WrapperWrite(name, a, u) ==
    /\ op = "init"
    /\ wrapper # NoWrapper
    /\ op' = name
    /\ arg' = a
    /\ ret' = u.res
    /\ wrapper' = u.wr
    /\ enum' = u.en
    /\ hist' = [hist EXCEPT !.current = wrapper.Current]
    /\ UNCHANGED <<labels, sent, held, threads, registry>>

\* the recorded call is a decode method that has returned nil
Decoded == op \in WrapperDecoders /\ ~ret.panic /\ ret.out = NilError

CallEnsureEnum ==
    LET s == ensureEnum(wrapper, enum, labels)
    IN  WrapperWrite("Wrapper.ensureEnum",
                     [Enum |-> wrapper.Enum, labels |-> wrapper.labels],
                     [wr |-> s.wr, en |-> s.en, res |-> [panic |-> FALSE]])

CallWrapperSet ==
    \E v \in Indices(labels) :
        WrapperWrite("Wrapper.Set", [v |-> v],
                     [wr |-> Wrapper_Set(wrapper, v), en |-> enum,
                      res |-> [panic |-> FALSE]])

CallWrapperUnmarshalJSON ==
    \E data \in WrapperJSONInputs :
        WrapperWrite("Wrapper.UnmarshalJSON", [data |-> data],
                     Wrapper_UnmarshalJSON(wrapper, enum, labels, data))

CallWrapperUnmarshalYAML ==
    \E cb \in WrapperYAMLCallbacks :
        WrapperWrite("Wrapper.UnmarshalYAML", [data |-> cb],
                     Wrapper_UnmarshalYAML(wrapper, enum, labels, cb))

CallWrapperUnmarshalText ==
    \E text \in WrapperTargets :
        WrapperWrite("Wrapper.UnmarshalText", [data |-> text],
                     Wrapper_UnmarshalText(wrapper, enum, labels, text))

CallWrapperUnmarshalBinary ==
    \E data \in WrapperBinaryInputs :
        WrapperWrite("Wrapper.UnmarshalBinary", [data |-> data],
                     Wrapper_UnmarshalBinary(wrapper, enum, labels, data))

CallWrapperScan ==
    \E src \in WrapperSQLSources :
        WrapperWrite("Wrapper.Scan", [data |-> src],
                     Wrapper_Scan(wrapper, enum, labels, src))

CallWrapperMarshalJSON ==
    /\ op = "init"
    /\ WrapperRead("Wrapper.MarshalJSON",
                   OnEnum(wrapper, Wrapper_MarshalJSON(wrapper, enum, labels)), <<>>)

CallWrapperMarshalYAML ==
    /\ op = "init"
    /\ WrapperRead("Wrapper.MarshalYAML",
                   OnEnum(wrapper, Wrapper_MarshalYAML(wrapper, enum, labels)), <<>>)

CallWrapperMarshalText ==
    /\ op = "init"
    /\ WrapperRead("Wrapper.MarshalText",
                   OnEnum(wrapper, Wrapper_MarshalText(wrapper, enum, labels)), <<>>)

CallWrapperMarshalBinary ==
    /\ op = "init"
    /\ WrapperRead("Wrapper.MarshalBinary",
                   OnEnum(wrapper, Wrapper_MarshalBinary(wrapper, enum, labels)), <<>>)

CallWrapperValue ==
    \/ /\ op = "init"
       /\ WrapperRead("Wrapper.Value",
                      OnEnum(wrapper, Wrapper_Value(wrapper, enum, labels)), <<>>)
    \/ /\ Decoded
       /\ WrapperRead("Wrapper.Value",
                      OnEnum(wrapper, Wrapper_Value(wrapper, enum, labels)), <<op>>)

CallWrapperString ==
    \/ /\ op = "init"
       /\ WrapperRead("Wrapper.String",
                      OnEnum(wrapper, Wrapper_String(wrapper, enum, labels)), <<>>)
    \/ /\ Decoded
       /\ WrapperRead("Wrapper.String",
                      OnEnum(wrapper, Wrapper_String(wrapper, enum, labels)), <<op>>)

CallWrapperAll ==
    /\ op = "init"
    /\ WrapperRead("Wrapper.All", OnEnum(wrapper, Wrapper_All(wrapper, enum)), <<>>)

CallWrapperLabels ==
    /\ op = "init"
    /\ WrapperRead("Wrapper.Labels",
                   OnEnum(wrapper, Wrapper_Labels(wrapper, enum, labels)), <<>>)

CallWrapperGet ==
    /\ op = "init"
    /\ WrapperRead("Wrapper.Get", [panic |-> FALSE, out |-> Wrapper_Get(wrapper)],
                   <<>>)

NextWrapper ==
    \/ Return
    \/ CallRegister
    \/ CallNewWrapper
    \/ MakeWrapperLiteral
    \/ CallEnsureEnum
    \/ CallWrapperSet
    \/ CallWrapperUnmarshalJSON
    \/ CallWrapperUnmarshalYAML
    \/ CallWrapperUnmarshalText
    \/ CallWrapperUnmarshalBinary
    \/ CallWrapperScan
    \/ CallWrapperMarshalJSON
    \/ CallWrapperMarshalYAML
    \/ CallWrapperMarshalText
    \/ CallWrapperMarshalBinary
    \/ CallWrapperValue
    \/ CallWrapperString
    \/ CallWrapperAll
    \/ CallWrapperLabels
    \/ CallWrapperGet

SpecWrapper == InitWrapper /\ [][NextWrapper]_vars

---------------------------------------------------------------------------
(* Properties *)

InRange(L, i) == 0 <= i /\ i < Len(L)

Distinct(L) == \A p, q \in 1..Len(L) : L[p] = L[q] => p = q

Occurs(L, t) == \E p \in 1..Len(L) : L[p] = t

\* the InvalidValue error a decoder must raise for string t on labels L
InvalidValueOf(t, L) ==
    [kind |-> "ErrInvalidEnumValue", Value |-> t,
     ValidValues |-> [array |-> "fresh", v |-> L]]

\* C1: the linear-scan path and the map-based path return the same
\* (index, found) pair for every label sequence, duplicates included, and
\* every target, so StringToIndex answers alike on both sides of the threshold.
C1_PathsAgree ==
    op = "lookup" =>
        /\ ret.map = ret.lin
        /\ ret.sti = ret.lin

\* C2: a target that occurs at positions p1 < p2, p1 its first occurrence,
\* resolves to p1 whatever the length of the label sequence.
C2_FirstOccurrenceWins ==
    op = "lookup" =>
        \A p1, p2 \in 1..Len(labels) :
            ( /\ p1 < p2
              /\ labels[p1] = arg.target
              /\ labels[p2] = arg.target
              /\ \A q \in 1..(p1 - 1) : labels[q] # arg.target )
            => ret.sti = [val |-> p1 - 1, found |-> TRUE]

\* the encoder and the decoder of each format that round-trips
Encoders == {"ToJSON", "ToText", "ToBinary"}
Decoders == {"FromJSON", "FromText", "FromBinary"}

\* C3 as stated: for every label sequence and every valid index i, decoding
\* the result of encoding i yields i with no error, in the JSON, text and
\* binary formats.
C3_RoundTripEveryLabels ==
    (op \in Decoders /\ sent # <<>> /\ InRange(labels, sent[1]))
    => ret = [val |-> sent[1], err |-> NilError]

\* what index i must satisfy for the round trip through one format
RoundTrips(fmt, L, i) ==
    /\ InRange(L, i)
    /\ Distinct(L)
    /\ fmt = "JSON" => ValidUTF8(L[i + 1])
    /\ fmt = "Binary" => Len(L[i + 1]) <= MaxUint16

FormatOf(name) ==
    IF name \in {"ToJSON", "FromJSON"} THEN "JSON"
    ELSE IF name \in {"ToText", "FromText"} THEN "Text"
    ELSE "Binary"

\* C3 (amended): for every sequence of pairwise distinct labels (of length
\* 0, 1, up to and above the threshold) and every valid index i, encoding i
\* succeeds and decoding the bytes yields i with no error: in the text
\* format always, in JSON when the label is valid UTF-8, in binary when the
\* label is at most 65535 bytes long.
C3_RoundTrip ==
    /\ (op \in Encoders /\ RoundTrips(FormatOf(op), labels, arg.index))
           => ret.err = NilError
    /\ (op \in Decoders /\ sent # <<>> /\ RoundTrips(FormatOf(op), labels, sent[1]))
           => ret = [val |-> sent[1], err |-> NilError]

\* a non-zero index has come back from the binary format on the map path
C3_Witness ==
    /\ op = "FromBinary"
    /\ sent # <<>>
    /\ Len(labels) > LookupThreshold
    /\ RoundTrips("Binary", labels, sent[1])
    /\ sent[1] = Len(labels) - 1
    /\ ret.val = sent[1]

\* C4: ValidateIndex fails iff IsValidIndex is false iff
\* SafeGetLabelWithError fails, and the index is valid exactly when
\* 0 <= i < len(L).
C4_ValidationConsistent ==
    op = "validate" =>
        /\ (ret.validate # NilError) <=> ~ret.isValid
        /\ (ret.safeGet.err # NilError) <=> ~ret.isValid
        /\ ret.isValid <=> (0 <= arg.index /\ arg.index < Len(labels))

\* index 0 of a non-empty label sequence passes the three forms
C4_Witness ==
    /\ op = "validate"
    /\ Len(labels) > 0
    /\ arg.index = 0
    /\ ret.validate = NilError
    /\ ret.isValid
    /\ ret.safeGet = [label |-> labels[1], err |-> NilError]

\* C5: SafeGetLabel returns L[i] for a valid i whatever the default, and
\* the default itself for every i outside [0, len(L)), the empty L included.
C5_SafeGetLabel ==
    op = "SafeGetLabel" =>
        IF 0 <= arg.index /\ arg.index < Len(labels)
        THEN ret.label = labels[arg.index + 1]
        ELSE ret.label = arg.defaultLabel

\* on the empty label sequence a default other than the sentinel comes back
C5_Witness ==
    /\ op = "SafeGetLabel"
    /\ labels = <<>>
    /\ arg.defaultLabel = S_b
    /\ ret.label = S_b

\* "Invalid" in the framing of each format
InvalidIn(name) ==
    IF name = "ToJSON" THEN <<34, 73, 110, 118, 97, 108, 105, 100, 34>>
    ELSE IF name = "ToYAML"
    THEN [type |-> "string", v |-> <<73, 110, 118, 97, 108, 105, 100>>]
    ELSE IF name = "ToText" THEN <<73, 110, 118, 97, 108, 105, 100>>
    ELSE <<0, 7, 73, 110, 118, 97, 108, 105, 100>>

\* C6: the JSON, YAML, text and binary encoders succeed on every
\* out-of-range index and emit the sentinel "Invalid" in their framing.
C6_InvalidIndexEncodes ==
    (op \in {"ToJSON", "ToYAML", "ToText", "ToBinary"}
         /\ ~(0 <= arg.index /\ arg.index < Len(labels)))
    => ret = [out |-> InvalidIn(op), err |-> NilError]

\* the binary encoder has framed the sentinel for the empty label set
C6_Witness ==
    /\ op = "ToBinary"
    /\ labels = <<>>
    /\ arg.index = 0
    /\ ret.out = <<0, 7, 73, 110, 118, 97, 108, 105, 100>>

\* the strings a decoder input may frame
FramedStrings ==
    Targets \cup LongStrings \cup {S_green, S_purple, <<98, 97>>, ReplacementChar}

\* data is string t, framed as the decoder called expects it
WellFramed(name, data, t) ==
    IF name = "FromText" THEN data = t
    ELSE IF name = "FromYAML" THEN data = [err |-> NilError, s |-> t]
    ELSE IF name = "FromSQLValue"
    THEN data = [type |-> "string", v |-> t] \/ data = [type |-> "bytes", v |-> t]
    ELSE IF name = "FromBinary"
    THEN /\ Len(data) = 2 + Len(t)
         /\ data[1] = Len(t) \div 256
         /\ data[2] = Len(t) % 256
         /\ SubSeq(data, 3, Len(data)) = t
    ELSE /\ name = "FromJSON"
         /\ Len(data) >= 2 + Len(t)
         /\ ValidUTF8(t)
         /\ data = JSONMarshalString(t)

Emitted(L, v) == IF 0 <= v /\ v < Len(L) THEN L[v + 1] ELSE InvalidLabel

\* C8: for a label of n <= 65535 bytes ToBinary returns 2+n bytes: n as a
\* big-endian unsigned 16-bit integer, then the label's bytes unchanged;
\* index 0 of first, second, third gives 0, 5, f, i, r, s, t.
C8_BinaryFormat ==
    op = "ToBinary" =>
        LET label == Emitted(labels, arg.index)
            n == Len(label)
        IN  /\ n <= 65535 =>
                /\ ret.err = NilError
                /\ Len(ret.out) = 2 + n
                /\ ret.out[1] * 256 + ret.out[2] = n
                /\ ret.out[1] \in 0..255 /\ ret.out[2] \in 0..255
                /\ SubSeq(ret.out, 3, 2 + n) = label
            /\ (labels = FirstSecondThird /\ arg.index = 0)
                   => ret.out = <<0, 5, 102, 105, 114, 115, 116>>

\* a label of exactly 65535 bytes has been framed
C8_Witness ==
    /\ op = "ToBinary"
    /\ 0 <= arg.index /\ arg.index < Len(labels)
    /\ Len(labels[arg.index + 1]) = 65535
    /\ ret.err = NilError
    /\ ret.out[1] = 255 /\ ret.out[2] = 255

\* C9: FromBinary on fewer than 2 bytes returns the zero index and
\* BinaryTooShort with Expected = 2 and Actual = the input length.
C9_TooShort ==
    (op = "FromBinary" /\ Len(arg.data) < 2) =>
        ret = [val |-> 0,
               err |-> [kind |-> "ErrBinaryDataTooShort",
                        Expected |-> 2, Actual |-> Len(arg.data)]]

\* one byte has been refused
C9_Witness ==
    /\ op = "FromBinary"
    /\ Len(arg.data) = 1
    /\ ret.err.kind = "ErrBinaryDataTooShort"
    /\ ret.err.Actual = 1

\* C10: FromBinary on at least 2 bytes whose declared length d exceeds the
\* bytes after the prefix returns the zero index and BinaryTruncated with
\* Expected = 2+d and Actual = the input length; 0, 10, a, b gives 12 and 4.
C10_Truncated ==
    (op = "FromBinary" /\ Len(arg.data) >= 2) =>
        LET d == arg.data[1] * 256 + arg.data[2]
        IN  /\ d > Len(arg.data) - 2 =>
                ret = [val |-> 0,
                       err |-> [kind |-> "ErrBinaryDataTruncated",
                                Expected |-> 2 + d, Actual |-> Len(arg.data)]]
            /\ arg.data = <<0, 10, 97, 98>> =>
                ret.err = [kind |-> "ErrBinaryDataTruncated",
                           Expected |-> 12, Actual |-> 4]

\* 0, 10, a, b has been refused
C10_Witness ==
    /\ op = "FromBinary"
    /\ arg.data = <<0, 10, 97, 98>>
    /\ ret.val = 0
    /\ ret.err.kind = "ErrBinaryDataTruncated"


\* C11: ToBinary fails with LabelTooLong (Length = the byte length of the
\* label it would emit, MaxLength = 65535) exactly when that label is longer
\* than 65535 bytes, and succeeds otherwise: a label of exactly 65535 bytes
\* is framed, with the prefix 255, 255.
C11_LabelTooLong ==
    op = "ToBinary" =>
        LET n == Len(Emitted(labels, arg.index))
        IN  /\ n > 65535 =>
                ret = [out |-> <<>>,
                       err |-> [kind |-> "ErrLabelTooLong",
                                Length |-> n, MaxLength |-> 65535]]
            /\ n <= 65535 => ret.err = NilError
            /\ n = 65535 => (ret.out[1] = 255 /\ ret.out[2] = 255)

\* a label of 65536 bytes has been refused
C11_Witness ==
    /\ op = "ToBinary"
    /\ 0 <= arg.index /\ arg.index < Len(labels)
    /\ Len(labels[arg.index + 1]) = 65536
    /\ ret.err = [kind |-> "ErrLabelTooLong", Length |-> 65536, MaxLength |-> 65535]

\* C12: ToSQLValue returns the label of the index, as a string and with no
\* error, for every valid index; for every invalid index it returns the nil
\* value and an error, never the sentinel "Invalid".
C12_SQLValue ==
    op = "ToSQLValue" =>
        IF 0 <= arg.index /\ arg.index < Len(labels)
        THEN ret = [out |-> [type |-> "string", v |-> labels[arg.index + 1]],
                    err |-> NilError]
        ELSE /\ ret.out = [type |-> "nil"]
             /\ ret.err # NilError

\* the index one past the last label has been refused with the nil value
C12_Witness ==
    /\ op = "ToSQLValue"
    /\ Len(labels) > 0
    /\ arg.index = Len(labels)
    /\ ret.out = [type |-> "nil"]
    /\ ret.err.kind = "ErrInvalidEnumValue"

\* C13: FromSQLValue on nil returns the zero index and no error whatever the
\* labels; on a string and on a byte sequence of the same content it returns
\* the same pair, the one resolution gives (an index that holds the content
\* and no error, or the zero index and InvalidValue); on a value of any
\* other type it returns the zero index and an error.
C13_FromSQLValue ==
    /\ op = "FromSQLValue" =>
        /\ arg.data.type = "nil" => ret = [val |-> 0, err |-> NilError]
        /\ arg.data.type \notin {"nil", "string", "bytes"} =>
               (ret.val = 0 /\ ret.err # NilError)
    /\ op = "FromSQLValueBoth" =>
        /\ ret.str = ret.bytes
        /\ IF Occurs(labels, arg.content)
           THEN /\ ret.bytes.err = NilError
                /\ InRange(labels, ret.bytes.val)
                /\ labels[ret.bytes.val + 1] = arg.content
           ELSE ret.bytes = [val |-> 0, err |-> InvalidValueOf(arg.content, labels)]

\* "green" as a string and as bytes has resolved to index 1 of red, green, blue
C13_Witness ==
    /\ op = "FromSQLValueBoth"
    /\ labels = RedGreenBlue
    /\ arg.content = S_green
    /\ ret.str = [val |-> 1, err |-> NilError]
    /\ ret.bytes = [val |-> 1, err |-> NilError]

\* the four error kinds of the package
ErrorKinds ==
    {"ErrInvalidEnumValue", "ErrBinaryDataTooShort", "ErrBinaryDataTruncated",
     "ErrLabelTooLong"}

\* C19: for two errors of the four kinds, errors.Is(a, b) is true when a and
\* b are of the same kind, whatever their payloads, and false when they are
\* of different kinds.
C19_IsByKind ==
    (op = "errors.Is" /\ arg.err.kind \in ErrorKinds /\ arg.target.kind \in ErrorKinds)
    => (ret.is <=> arg.err.kind = arg.target.kind)

\* two InvalidValue errors with different rejected strings have matched
C19_Witness ==
    /\ op = "errors.Is"
    /\ arg.err.kind = "ErrInvalidEnumValue"
    /\ arg.target.kind = "ErrInvalidEnumValue"
    /\ arg.err.Value # arg.target.Value
    /\ ret.is

\* the value of a run of decimal digits, -1 when it is not one
RECURSIVE DigitsValue(_)
DigitsValue(d) ==
    IF Len(d) = 0 THEN 0 - 1
    ELSE IF d[Len(d)] < 48 \/ d[Len(d)] > 57 THEN 0 - 1
    ELSE IF Len(d) = 1 THEN d[1] - 48
    ELSE LET front == DigitsValue(SubSeq(d, 1, Len(d) - 1))
         IN  IF front < 0 THEN 0 - 1 ELSE 10 * front + (d[Len(d)] - 48)

\* s is Invalid(<v>), v written in decimal
IsPlaceholder(s, v) ==
    /\ Len(s) >= 10
    /\ SubSeq(s, 1, 8) = <<73, 110, 118, 97, 108, 105, 100, 40>>
    /\ s[Len(s)] = 41
    /\ LET d == SubSeq(s, 9, Len(s) - 1)
       IN  IF v < 0
           THEN d[1] = 45 /\ DigitsValue(SubSeq(d, 2, Len(d))) = 0 - v
           ELSE DigitsValue(d) = v

\* C14: Enum.String(v) returns labels[v] for every valid index v and, for
\* every v out of range, the placeholder Invalid(<v>) with v in decimal
\* (Invalid(-1), Invalid(5)), never the bare sentinel Invalid.
C14_EnumString ==
    op = "Enum.String" =>
        IF 0 <= arg.index /\ arg.index < Len(labels)
        THEN ret.out = labels[arg.index + 1]
        ELSE /\ IsPlaceholder(ret.out, arg.index)
             /\ ret.out # <<73, 110, 118, 97, 108, 105, 100>>
             /\ arg.index = 0 - 1 =>
                    ret.out = <<73, 110, 118, 97, 108, 105, 100, 40, 45, 49, 41>>
             /\ arg.index = 5 =>
                    ret.out = <<73, 110, 118, 97, 108, 105, 100, 40, 53, 41>>

\* index 5 of red, green, blue has given Invalid(5)
C14_Witness ==
    /\ op = "Enum.String"
    /\ labels = RedGreenBlue
    /\ arg.index = 5
    /\ ret.out = <<73, 110, 118, 97, 108, 105, 100, 40, 53, 41>>

\* the lengths of the three fields of a built Enum agree
LengthsAgree ==
    (enum # NoEnum /\ Distinct(hist.orig)) =>
        /\ Len(enum.allVals) = Len(Load(enum.labels, enum, labels))
        /\ Cardinality(DOMAIN enum.labelMap) = Len(Load(enum.labels, enum, labels))

\* no step changes the map or the list of all values of a built Enum
DerivedOnce ==
    enum # NoEnum => (enum'.labelMap = enum.labelMap /\ enum'.allVals = enum.allVals)

\* C15: for an Enum built from unique labels len(allVals) = len(labelMap) =
\* len(labels) in every reachable state, and no operation after the
\* construction changes the map or the list of all values.
C15_EnumInvariant == []LengthsAgree /\ [][DerivedOnce]_vars

\* an Enum over three distinct labels, after the caller wrote into a copy
C15_Witness ==
    /\ enum # NoEnum
    /\ hist.orig = RedGreenBlue
    /\ hist.writes > 0
    /\ held.from = "Enum.All"
    /\ Len(enum.allVals) = 3
    /\ Cardinality(DOMAIN enum.labelMap) = 3

\* C16: after the construction, whatever the caller writes into the slice
\* it supplied, String(v) and Labels() return the labels of the
\* construction, and the label at every index the map holds is the label
\* the map was built from.
C16_LabelStoreImmutable ==
    /\ (op = "Enum.String" /\ InRange(hist.orig, arg.index))
           => ret.out = hist.orig[arg.index + 1]
    /\ op = "Enum.Labels" => Load(ret.out, enum, labels) = hist.orig
    /\ enum # NoEnum =>
           \A t \in DOMAIN enum.labelMap :
               Load(enum.labels, enum, labels)[enum.labelMap[t] + 1] = t

\* C17: whatever the caller writes into slices that Labels() and All()
\* returned, a later Labels() returns the labels of the construction and a
\* later All() returns 0, 1, ..., N-1 (the caller not having written the
\* slice it supplied, nor the read-only view).
C17_DefensiveCopies ==
    /\ (op = "Enum.Labels" /\ ~hist.wroteSupplied)
           => Load(ret.out, enum, labels) = hist.orig
    /\ op = "Enum.All"
           => Load(ret.out, enum, labels) = [i \in 1..Len(hist.orig) |-> i - 1]

\* All() has returned 0, 1, 2 after 999 was written into its earlier result
C17_Witness ==
    /\ op = "Enum.All"
    /\ held.from = "Enum.All"
    /\ \E p \in 1..Len(held.sl.v) : held.sl.v[p] = 999
    /\ hist.orig = RedGreenBlue
    /\ ret.out.v = <<0, 1, 2>>

\* C18: the ValidValues of an InvalidValue error are the labels as they
\* were when the error was raised, whatever the caller writes afterwards
\* into the list it passed to NewInvalidEnumValueError or to the decoder.
C18_ErrorOwnsCopy ==
    (op \in {"NewInvalidEnumValueError", "FromText"}
         /\ ret.err.kind = "ErrInvalidEnumValue")
    => Load(ret.err.ValidValues, enum, labels) = arg.labels

\* the first of red, green, blue was overwritten after the error was raised
C18_Witness ==
    /\ op = "NewInvalidEnumValueError"
    /\ arg.labels = RedGreenBlue
    /\ labels[1] = S_modified
    /\ ret.err.ValidValues.v = RedGreenBlue

\* what call c returns when it runs alone on the Enum and the Wrapper as
\* they were when the threads started
Alone(c) ==
    Run(c, NewEnum(SuppliedSlice, hist.orig),
        Wrapper_Set(NewWrapper(SuppliedSlice), hist.current), hist.orig)

\* every finished call has returned what it returns alone, and Current is
\* what it was
SameAsAlone ==
    /\ \A t \in 1..NThreads :
           threads[t].pc = "returned" => threads[t].out = Alone(threads[t].call)
    /\ wrapper # NoWrapper => wrapper.Current = hist.current

\* a step writes neither the labels, nor the Enum, nor the Wrapper
NoSharedWrite == UNCHANGED <<labels, enum, wrapper>>

\* C20: under every interleaving of threads that call String, FromString,
\* All, Labels and the encode adapters on one Enum, and String, Get, All,
\* Labels, MarshalJSON and MarshalYAML on one Wrapper, no step writes the
\* labels, the map, the list of all values or Current, every call returns
\* what it returns when run alone, and Current is the same afterwards.
C20_ConcurrentReads == []SameAsAlone /\ [][NoSharedWrite]_vars

\* thread 2 has returned from MarshalJSON while thread 1 is inside String
C20_Witness ==
    /\ labels = RedGreenBlue
    /\ wrapper.Current = 1
    /\ threads[1].pc = "called"
    /\ threads[1].call.m = "Wrapper.String"
    /\ threads[2].pc = "returned"
    /\ threads[2].call.m = "Wrapper.MarshalJSON"
    /\ threads[2].out.out = <<34, 103, 114, 101, 101, 110, 34>>

\* C22: StringToIndex, and each of its two paths, returns the zero index
\* and found = false whenever the target equals no label (so for every
\* target on the empty label sequence), and reports found = true only with
\* an index i inside the labels such that labels[i] is the target.
C22_NotFound ==
    op = "lookup" =>
        \A r \in {ret.sti, ret.map, ret.lin} :
            /\ ~Occurs(labels, arg.target) => r = [val |-> 0, found |-> FALSE]
            /\ r.found => (InRange(labels, r.val) /\ labels[r.val + 1] = arg.target)

\* "b" was not found among more than LookupThreshold labels
C22_Witness ==
    /\ op = "lookup"
    /\ Len(labels) > LookupThreshold
    /\ arg.target = S_b
    /\ ret.sti = [val |-> 0, found |-> FALSE]
    /\ ret.map = [val |-> 0, found |-> FALSE]

\* C23: StringToIndex gives what the map path gives exactly when there are
\* more than 10 labels and what the linear path gives when there are 10 or
\* fewer; ShouldUseCachedLookup is true for exactly the same label counts.
C23_PathSelection ==
    /\ op = "lookup" =>
           ret.sti = (IF Len(labels) > 10 THEN ret.map ELSE ret.lin)
    /\ op = "ShouldUseCachedLookup" => (ret.out <=> Len(labels) > 10)

\* exactly 10 labels, the last two equal: the two paths differ and the
\* resolver has returned what the linear path returns
C23_Witness ==
    /\ op = "lookup"
    /\ Len(labels) = 10
    /\ ret.map # ret.lin
    /\ ret.sti = ret.lin

\* C24: for N labels, N = 0 included, BuildAllValues and Enum.All return
\* the N values 0, 1, ..., N-1 in that order, and BuildLookupMap returns a
\* map whose keys are exactly the labels, each mapped to an index that
\* holds it, however few the labels are.
C24_AllValuesEveryN ==
    /\ op = "BuildAllValues" =>
           ret.out = [i \in 1..Len(labels) |-> i - 1]
    /\ op = "Enum.All" =>
           Load(ret.out, enum, labels) = [i \in 1..Len(labels) |-> i - 1]
    /\ op = "BuildLookupMap" =>
        /\ DOMAIN ret.out = {labels[i] : i \in 1..Len(labels)}
        /\ \A k \in DOMAIN ret.out :
               InRange(labels, ret.out[k]) /\ labels[ret.out[k] + 1] = k

\* the map of two distinct labels, far below the threshold, has two keys
C24_Witness ==
    /\ op = "BuildLookupMap"
    /\ labels = <<S_a, S_b>>
    /\ DOMAIN ret.out = {S_a, S_b}
    /\ ret.out[S_b] = 1

\* a step that records a method of the cache builder
CacheBuilderStep ==
    op' \in {"BuildAllValues", "BuildLookupMap", "ShouldUseCachedLookup"}

\* C25: no call of BuildAllValues, BuildLookupMap or ShouldUseCachedLookup
\* changes the label sequence the builder was made on, in whatever order
\* and however often they are called.
C25_CacheBuilderFrame == [][CacheBuilderStep => labels' = labels]_vars

\* the map was built from labels with a repeated label, which are still there
C25_Witness ==
    /\ op = "BuildLookupMap"
    /\ labels = <<S_a, S_quote, S_a>>
    /\ arg.labels = labels
    /\ DOMAIN ret.out = {S_a, S_quote}

\* C29: FromBinary returns for an input with bytes after the declared
\* payload what it returns for that input cut to the prefix and the
\* declared payload: the resolution of the declared payload.
C29_TrailingBytesIgnored ==
    op = "FromBinaryTrailing" =>
        /\ ret.whole = ret.cut
        /\ LET payload == SubSeq(arg.cut, 3, Len(arg.cut))
           IN  IF Occurs(labels, payload)
               THEN /\ ret.whole.err = NilError
                    /\ InRange(labels, ret.whole.val)
                    /\ labels[ret.whole.val + 1] = payload
               ELSE ret.whole = [val |-> 0, err |-> InvalidValueOf(payload, labels)]

\* 0, 1, "a", "b" has decoded to the index of "a"
C29_Witness ==
    /\ op = "FromBinaryTrailing"
    /\ labels = <<S_empty, S_a>>
    /\ arg.data = <<0, 1, 97, 98>>
    /\ ret.whole = [val |-> 1, err |-> NilError]

\* C21: ensureEnum on a Wrapper whose Enum is nil and whose local labels
\* are nil, with labels registered for the type, leaves the Wrapper with an
\* Enum that holds the registered labels and with its local labels set to
\* the registered labels.
C21_EnsureEnumFromRegistry ==
    (/\ op = "Wrapper.ensureEnum"
     /\ arg.Enum = "nil"
     /\ arg.labels = NilSlice
     /\ TypeName \in DOMAIN registry)
    => /\ wrapper.Enum # "nil"
       /\ enum # NoEnum
       /\ wrapper.labels = GetLabels(registry, TypeName)

\* C26: on an Enum built from the labels, FromString succeeds exactly when
\* StringToIndex on the same labels finds the string, both give the same
\* index, and that index is the first position that holds the string;
\* for every label sequence, duplicates included.
C26_FromStringAgrees ==
    (op = "FromStringBoth" /\ ~hist.wroteSupplied)
    => /\ (ret.enum.err = NilError) <=> ret.sti.found
       /\ ret.enum.val = ret.sti.val
       /\ ret.sti.found =>
              /\ InRange(labels, ret.sti.val)
              /\ labels[ret.sti.val + 1] = arg.s
              /\ \A p \in 1..ret.sti.val : labels[p] # arg.s

\* C27: when UnmarshalJSON, UnmarshalYAML, UnmarshalText, UnmarshalBinary
\* or Scan returns an error, Current is what it was before the call,
\* whatever calls of Set and of the decode methods came before.
C27_FailedDecodeKeepsCurrent ==
    (op \in WrapperDecoders /\ ~ret.panic /\ ret.out # NilError)
    => wrapper.Current = hist.current

\* UnmarshalJSON of "purple" has failed on red, green, blue with Current 2
C27_Witness ==
    /\ op = "Wrapper.UnmarshalJSON"
    /\ labels = RedGreenBlue
    /\ arg.data = JSONMarshalString(S_purple)
    /\ ~ret.panic
    /\ ret.out.kind = "ErrInvalidEnumValue"
    /\ hist.current = 2
    /\ wrapper.Current = 2

\* after a decode method has returned nil, Current is a valid index, and a
\* Value() or String() that follows at once returns the label of Current
ValidAfterDecode ==
    /\ Decoded => IsValidIndex(labels, wrapper.Current)
    /\ (op = "Wrapper.Value" /\ sent # <<>>) =>
        /\ ~ret.panic
        /\ ret.out.err = NilError
        /\ InRange(labels, wrapper.Current)
        /\ ret.out.out = [type |-> "string", v |-> labels[wrapper.Current + 1]]
    /\ (op = "Wrapper.String" /\ sent # <<>>) =>
        /\ ~ret.panic
        /\ InRange(labels, wrapper.Current)
        /\ ret.out = labels[wrapper.Current + 1]

\* C28, as stated: the above for every label sequence, the empty one
\* included, and every accepted input, SQL NULL included.
C28_ValidAfterDecodeEveryLabels == ValidAfterDecode

\* C28, amended: the above for every label sequence that is not empty.
C28_ValidAfterDecode == labels # <<>> => ValidAfterDecode

\* Value() right after a Scan(nil) that succeeded on red, green, blue has
\* returned "red"
C28_Witness ==
    /\ op = "Wrapper.Value"
    /\ sent = <<"Wrapper.Scan">>
    /\ labels = RedGreenBlue
    /\ wrapper.Current = 0
    /\ ret.out.out = [type |-> "string", v |-> S_red]

\* the methods of the Wrapper that read its Enum
WrapperMethods ==
    WrapperDecoders
    \cup {"Wrapper.MarshalJSON", "Wrapper.MarshalYAML", "Wrapper.MarshalText",
          "Wrapper.MarshalBinary", "Wrapper.Value", "Wrapper.String",
          "Wrapper.All", "Wrapper.Labels"}

\* C30: every marshal method, every unmarshal method, String, All and
\* Labels, called on a Wrapper whose Enum is nil (local labels nil or
\* set), returns a result or an error and does not dereference the nil
\* Enum.
C30_NoNilDereference == op \in WrapperMethods => ~ret.panic


=============================================================================
